---- MODULE Spec2Model ----
(***************************************************************************)
(* Trimap-and-alpha-matting pipeline of the segmenter backend:             *)
(*   services/trimap.py            TrimapGenerationService                 *)
(*   services/classical_matting.py ClassicalMattingService                 *)
(*   services/vitmatte.py          ViTMatteService                         *)
(*   api/routes.py                 matte_segment_image                     *)
(*                                                                         *)
(* A raster is a record [h, w, px] with px a function from <<y, x>>        *)
(* (0-based, row first) to an 8-bit value.  An image is represented by its *)
(* height and width only: no statement below reads a colour value.         *)
(* An alpha value is the rational n / AlphaScale, stored as the integer n. *)
(***************************************************************************)
EXTENDS Integers, Sequences, FiniteSets, TLC

\* ------------------------------------------------------------------ bounds
MaxH == 2
MaxW == 2
MaxK == 3
MaxDim == 5
AlphaScale == 8

\* ------------------------------------------------------- program constants
BinarizeThreshold == 127
Unknown == 128
White == 255

\* ----------------------------------------------------------------- helpers
Max(a, b) == IF a >= b THEN a ELSE b
Min(a, b) == IF a <= b THEN a ELSE b
Abs(a) == IF a >= 0 THEN a ELSE -a

Pixels(h, w) == (0 .. h - 1) \X (0 .. w - 1)

Raster(h, w, px) == [h |-> h, w |-> w, px |-> px]

Shape(r) == <<r.h, r.w>>

\* Python exceptions: the class, what the message says, and the two chaining
\* slots (__cause__ is set by "raise ... from e" only, __context__ by raising
\* inside an except block).
Exc(type, msg) == [type |-> type, msg |-> msg, cause |-> "None", context |-> "None"]

NoExc == Exc("None", "None")

Returned(v) == [raised |-> FALSE, value |-> v, exc |-> NoExc]

Raised(e) == [raised |-> TRUE, value |-> "None", exc |-> e]

\* ------------------------------------------------------------ cv2 (OpenCV)
\* dx = saturate_cast<int>(c * sqrt((r*r - dy*dy) * inv_r2)): the integer
\* nearest to c * sqrt(r*r - dy*dy) / r, i.e. the least d with
\* (2d + 1)^2 * r^2 > 4 * c^2 * (r^2 - dy^2).
EllipseDxCentreOnly(r, c, dy) == 0

EllipseDx(r, c, dy) ==
    CHOOSE d \in 0 .. c :
        /\ (2 * d + 1) * (2 * d + 1) * r * r > 4 * c * c * (r * r - dy * dy)
        /\ \A e \in 0 .. d - 1 :
              (2 * e + 1) * (2 * e + 1) * r * r <= 4 * c * c * (r * r - dy * dy)

\* cv2.getStructuringElement(cv2.MORPH_ELLIPSE, (k, k)) with the default anchor
\* (-1, -1): normalizeAnchor puts the anchor at (k / 2, k / 2) and asserts it
\* lies inside the k x k rectangle, which fails for k = 0; a 1 x 1 element is
\* made a MORPH_RECT.  The element is returned as the set of its non-zero
\* cells <<i, j>> (row, column).
getStructuringElement(k) ==
    IF k <= 0
    THEN Raised(Exc("cv2.error", "anchor.inside(Rect(0, 0, ksize.width, ksize.height))"))
    ELSE IF k = 1
    THEN Returned([ksize |-> 1, cells |-> {<<0, 0>>}])
    ELSE LET r == k \div 2
             c == k \div 2
             j1(i) == Max(c - EllipseDx(r, c, i - r), 0)
             j2(i) == Min(c + EllipseDx(r, c, i - r) + 1, k)
         IN  Returned([ksize |-> k,
                       cells |-> {q \in (0 .. k - 1) \X (0 .. k - 1) :
                                     /\ Abs(q[1] - r) <= r
                                     /\ j1(q[1]) <= q[2]
                                     /\ q[2] < j2(q[1])}])

\* The values of the source pixels a structuring element covers when anchored
\* (default anchor: its centre) at p; cells that fall outside the raster are
\* left out, which is what the default border value of erode (+max) and of
\* dilate (-max) amounts to.
Covered(src, kernel, p) ==
    LET a == kernel.ksize \div 2
    IN  {src.px[<<p[1] + cell[1] - a, p[2] + cell[2] - a>>] :
            cell \in {c \in kernel.cells :
                         /\ p[1] + c[1] - a \in 0 .. src.h - 1
                         /\ p[2] + c[2] - a \in 0 .. src.w - 1}}

\* cv2.erode(src, kernel, iterations=1): the minimum over the covered pixels.
erode(src, kernel) ==
    [src EXCEPT !.px = [p \in DOMAIN src.px |->
        LET vals == Covered(src, kernel, p)
        IN  IF vals = {} THEN White
            ELSE CHOOSE v \in vals : \A u \in vals : v <= u]]

\* cv2.dilate(src, kernel, iterations=1): the maximum over the covered pixels.
dilate(src, kernel) ==
    [src EXCEPT !.px = [p \in DOMAIN src.px |->
        LET vals == Covered(src, kernel, p)
        IN  IF vals = {} THEN 0
            ELSE CHOOSE v \in vals : \A u \in vals : v >= u]]

\* A resize that blends: each destination pixel is three quarters its nearest
\* source pixel and one quarter that pixel's lower right neighbour.
resizeBlended(src, dw, dh) ==
    IF dw <= 0 \/ dh <= 0
    THEN Raised(Exc("cv2.error", "inv_scale_x > 0"))
    ELSE Returned([h |-> dh, w |-> dw,
                   px |-> [p \in Pixels(dh, dw) |->
                       LET y == Min((p[1] * src.h) \div dh, src.h - 1)
                           x == Min((p[2] * src.w) \div dw, src.w - 1)
                       IN  (3 * src.px[<<y, x>>]
                            + src.px[<<Min(y + 1, src.h - 1), Min(x + 1, src.w - 1)>>])
                           \div 4]])

\* cv2.resize(src, (dw, dh), interpolation=cv2.INTER_NEAREST): destination
\* pixel (y, x) takes source pixel (min(floor(y * sh / dh), sh - 1),
\* min(floor(x * sw / dw), sw - 1)).  An empty dsize fails the assertion
\* inv_scale_x > 0 (fx and fy are left at 0).
resizeNearest(src, dw, dh) ==
    IF dw <= 0 \/ dh <= 0
    THEN Raised(Exc("cv2.error", "inv_scale_x > 0"))
    ELSE Returned([h |-> dh, w |-> dw,
                   px |-> [p \in Pixels(dh, dw) |->
                       src.px[<<Min((p[1] * src.h) \div dh, src.h - 1),
                                Min((p[2] * src.w) \div dw, src.w - 1)>>]]])

\* ------------------------------------------------- TrimapGenerationService
\* mask = (mask > 127).astype(np.uint8) * 255
BinarizeInclusive(mask) ==
    [mask EXCEPT !.px = [p \in DOMAIN mask.px |->
        IF mask.px[p] >= BinarizeThreshold THEN White ELSE 0]]

Binarize(mask) ==
    [mask EXCEPT !.px = [p \in DOMAIN mask.px |->
        IF mask.px[p] > BinarizeThreshold THEN White ELSE 0]]

\* The three masked assignments that fill the trimap, in the order written.
Classify(foreground, background) ==
    LET t0 == [p \in DOMAIN foreground.px |-> 0]
        t1 == [p \in DOMAIN t0 |-> IF background.px[p] = 0 THEN 0 ELSE t0[p]]
        t2 == [p \in DOMAIN t1 |-> IF foreground.px[p] = White THEN White ELSE t1[p]]
        t3 == [p \in DOMAIN t2 |->
                  IF background.px[p] = White /\ foreground.px[p] = 0
                  THEN Unknown ELSE t2[p]]
    IN  [foreground EXCEPT !.px = t3]

create_trimap(mask, erosion_kernel_size, dilation_kernel_size) ==
    LET bin == Binarize(mask)
        erosion_kernel == getStructuringElement(erosion_kernel_size)
        dilation_kernel == getStructuringElement(dilation_kernel_size)
    IN  IF erosion_kernel.raised THEN Raised(erosion_kernel.exc)
        ELSE IF dilation_kernel.raised THEN Raised(dilation_kernel.exc)
        ELSE Returned(Classify(erode(bin, erosion_kernel.value),
                               dilate(bin, dilation_kernel.value)))

\* resize_image recording the size after scaling instead of the one before.
resize_image_WorkingSize(h, w, max_size) ==
    LET new_h == IF h > w THEN max_size ELSE (h * max_size) \div w
        new_w == IF h > w THEN (w * max_size) \div h ELSE max_size
    IN  IF Max(h, w) <= max_size
        THEN Returned([h |-> h, w |-> w, resampled |-> FALSE,
                       original_size |-> <<h, w>>])
        ELSE IF new_w <= 0 \/ new_h <= 0
        THEN Raised(Exc("cv2.error", "inv_scale_x > 0"))
        ELSE Returned([h |-> new_h, w |-> new_w, resampled |-> TRUE,
                       original_size |-> <<new_h, new_w>>])

\* resize_image leaving only images strictly smaller than max_size alone.
resize_image_Strict(h, w, max_size) ==
    LET original_size == <<h, w>>
        new_h == IF h > w THEN max_size ELSE (h * max_size) \div w
        new_w == IF h > w THEN (w * max_size) \div h ELSE max_size
    IN  IF Max(h, w) < max_size
        THEN Returned([h |-> h, w |-> w, resampled |-> FALSE,
                       original_size |-> original_size])
        ELSE IF new_w <= 0 \/ new_h <= 0
        THEN Raised(Exc("cv2.error", "inv_scale_x > 0"))
        ELSE Returned([h |-> new_h, w |-> new_w, resampled |-> TRUE,
                       original_size |-> original_size])

\* resize_image bringing the shorter side, not the longer, to max_size.
resize_image_ShorterSide(h, w, max_size) ==
    LET original_size == <<h, w>>
        new_h == IF h > w THEN (h * max_size) \div w ELSE max_size
        new_w == IF h > w THEN max_size ELSE (w * max_size) \div h
    IN  IF Max(h, w) <= max_size
        THEN Returned([h |-> h, w |-> w, resampled |-> FALSE,
                       original_size |-> original_size])
        ELSE IF new_w <= 0 \/ new_h <= 0
        THEN Raised(Exc("cv2.error", "inv_scale_x > 0"))
        ELSE Returned([h |-> new_h, w |-> new_w, resampled |-> TRUE,
                       original_size |-> original_size])

\* def resize_image(image, max_size): the working height and width and the
\* recorded original size.  int(a * b / c) truncates the (non-negative)
\* quotient; cv2.resize (INTER_LINEAR) rejects an empty dsize.  Of the image
\* the shape is kept, and whether it is the input itself or a resampling.
resize_image(h, w, max_size) ==
    LET original_size == <<h, w>>
        new_h == IF h > w THEN max_size ELSE (h * max_size) \div w
        new_w == IF h > w THEN (w * max_size) \div h ELSE max_size
    IN  IF Max(h, w) <= max_size
        THEN Returned([h |-> h, w |-> w, resampled |-> FALSE,
                       original_size |-> original_size])
        ELSE IF new_w <= 0 \/ new_h <= 0
        THEN Raised(Exc("cv2.error", "inv_scale_x > 0"))
        ELSE Returned([h |-> new_h, w |-> new_w, resampled |-> TRUE,
                       original_size |-> original_size])

\* ----------------------------------------------------------- ViTMatteService
\* A builder that ignores dilation_kernel_size and dilates with the erosion
\* element.
ViT_create_trimap_OneKernel(mask, erosion_kernel_size, dilation_kernel_size) ==
    LET bin == [mask EXCEPT !.px = [p \in DOMAIN mask.px |->
                   IF mask.px[p] > BinarizeThreshold THEN White ELSE 0]]
        erosion_kernel == getStructuringElement(erosion_kernel_size)
        foreground == erode(bin, erosion_kernel.value)
        background == dilate(bin, erosion_kernel.value)
    IN  IF erosion_kernel.raised THEN Raised(erosion_kernel.exc)
        ELSE Returned([bin EXCEPT !.px = [p \in DOMAIN bin.px |->
                 IF background.px[p] = White /\ foreground.px[p] = 0 THEN Unknown
                 ELSE IF foreground.px[p] = White THEN White
                 ELSE 0]])

\* ViTMatteService._create_trimap: the service's own copy of the builder.
ViT_create_trimap(mask, erosion_kernel_size, dilation_kernel_size) ==
    LET bin == [mask EXCEPT !.px = [p \in DOMAIN mask.px |->
                   IF mask.px[p] > BinarizeThreshold THEN White ELSE 0]]
        erosion_kernel == getStructuringElement(erosion_kernel_size)
        dilation_kernel == getStructuringElement(dilation_kernel_size)
        foreground == erode(bin, erosion_kernel.value)
        background == dilate(bin, dilation_kernel.value)
    IN  IF erosion_kernel.raised THEN Raised(erosion_kernel.exc)
        ELSE IF dilation_kernel.raised THEN Raised(dilation_kernel.exc)
        ELSE Returned([bin EXCEPT !.px = [p \in DOMAIN bin.px |->
                 IF background.px[p] = White /\ foreground.px[p] = 0 THEN Unknown
                 ELSE IF foreground.px[p] = White THEN White
                 ELSE 0]])

\* ViTMatteService._resize_image: the service's own copy of resize_image.
ViT_resize_image(h, w, max_size) ==
    IF Max(h, w) <= max_size
    THEN Returned([h |-> h, w |-> w, resampled |-> FALSE, original_size |-> <<h, w>>])
    ELSE IF h > w
    THEN IF (w * max_size) \div h <= 0
         THEN Raised(Exc("cv2.error", "inv_scale_x > 0"))
         ELSE Returned([h |-> max_size, w |-> (w * max_size) \div h,
                        resampled |-> TRUE, original_size |-> <<h, w>>])
    ELSE IF (h * max_size) \div w <= 0
         THEN Raised(Exc("cv2.error", "inv_scale_x > 0"))
         ELSE Returned([h |-> (h * max_size) \div w, w |-> max_size,
                        resampled |-> TRUE, original_size |-> <<h, w>>])

\* Conversion of the network's alpha to 8 bits: (alpha_matte * 255).astype(
\* np.uint8), with no clip.  A float outside 0..255 cast to uint8 is undefined
\* in C: the build either wraps (x86) or saturates (ARM).
TruncDiv(a, b) == IF a >= 0 THEN a \div b ELSE -((-a) \div b)

ViT_to_uint8(n, cast) ==
    LET t == TruncDiv(n * 255, AlphaScale)
    IN  IF t \in 0 .. 255 THEN t
        ELSE IF cast = "wrap" THEN t % 256
        ELSE IF t < 0 THEN 0 ELSE 255

\* -------------------------------------------------- ClassicalMattingService
valid_algorithms == {"cf", "knn", "lbdm", "lkm"}

\* alpha = np.clip(alpha, 0, 1); alpha_matte = (alpha * 255).astype(np.uint8)
Classical_to_uint8(n) == (Min(Max(n, 0), AlphaScale) * 255) \div AlphaScale

\* What a delegated solver does is not this repository's code: it either
\* raises or returns an alpha field of the trimap's shape that is 0 on certain
\* background, 1 on certain foreground and `level` on the unknown band.
SolverOutcomes(levels) == {[raises |-> TRUE, level |-> 0]} \cup
                          {[raises |-> FALSE, level |-> l] : l \in levels}

SolverError == Exc("SolverError", "solver failure")

SolverAlpha(trimap, level) ==
    Raster(trimap.h, trimap.w,
           [p \in Pixels(trimap.h, trimap.w) |->
               IF trimap.px[p] = 0 THEN 0
               ELSE IF trimap.px[p] = White THEN AlphaScale
               ELSE level])

Call(callee, image, trimap, raised) ==
    [callee |-> callee, image |-> image, trimap |-> trimap, raised |-> raised]

\* _apply_matting_algorithm(image, trimap, algorithm) with the solver's
\* outcome `out`: the value returned or the exception raised, and the solver
\* calls made.  The two shape checks stand before the try block; the
\* "Unsupported algorithm" ValueError is raised inside it and so is caught by
\* its "except Exception", like a solver's failure, and replaced by the
\* RuntimeError (raised without "from": __cause__ stays None, __context__ is
\* the caught exception).
apply_matting_algorithm(image, trimap, algorithm, out) ==
    IF <<image.h, image.w>> # Shape(trimap)
    THEN [raised |-> TRUE, value |-> trimap, calls |-> <<>>,
          exc |-> Exc("ValueError", "Image and trimap shape mismatch")]
    ELSE IF algorithm \notin valid_algorithms
    THEN [raised |-> TRUE, value |-> trimap, calls |-> <<>>,
          exc |-> [Exc("RuntimeError", "Matting algorithm failed")
                      EXCEPT !.context = "ValueError: Unsupported algorithm"]]
    ELSE IF out.raises
    THEN [raised |-> TRUE, value |-> trimap,
          calls |-> <<Call("estimate_alpha_" \o algorithm,
                           <<image.h, image.w>>, Shape(trimap), TRUE)>>,
          exc |-> [Exc("RuntimeError", "Matting algorithm failed")
                      EXCEPT !.context = SolverError.type]]
    ELSE [raised |-> FALSE, value |-> SolverAlpha(trimap, out.level),
          calls |-> <<Call("estimate_alpha_" \o algorithm,
                           <<image.h, image.w>>, Shape(trimap), FALSE)>>,
          exc |-> NoExc]

\* ------------------------------------------------------------------- state
VARIABLES
    fn,             \* the function under call ("none" outside SpecFunctions)
    arg,            \* its arguments
    fpc,            \* "ready" before the call, "done" after it
    ret,            \* what the call returned or raised
    pc,             \* where the request stands in generate_matte
    req,            \* the call's arguments
    image_resized,  \* shape of the working image
    mask_resized,   \* the mask handed to the trimap builder
    trimap,         \* the trimap
    alpha,          \* the alpha field the estimator returned
    foreground,     \* shape of the RGBA foreground layer
    bundle,         \* the result bundle returned
    exc,            \* the exception that left the call
    calls,          \* the collaborator calls made, in order
    trace,          \* the stages entered, in order
    files,          \* the files of the server's working directory
    services,       \* the module globals of routes.py: instance held, per accessor
    constructed,    \* the services each accessor has constructed so far
    service         \* the handler's local `service`: what the accessor returned

fvars == <<fn, arg, fpc, ret>>

locals == <<image_resized, mask_resized, trimap, alpha, foreground>>

pvars == <<pc, req, image_resized, mask_resized, trimap, alpha, foreground,
           bundle, exc, calls, trace, files, services, constructed, service>>

vars == <<fn, arg, fpc, ret, pc, req, image_resized, mask_resized, trimap,
          alpha, foreground, bundle, exc, calls, trace, files, services,
          constructed, service>>

NoShape == [h |-> 0, w |-> 0, resampled |-> FALSE, original_size |-> <<0, 0>>]

NoRaster == Raster(0, 0, [p \in Pixels(0, 0) |-> 0])

NoBundle == << >>

NoReq == [entry |-> "None"]

\* An empty working directory.
NoFiles == << >>

svars == <<services, constructed, service>>

ServiceNames == {"sam2_service", "vitmatte_service", "classical_matting_service"}

\* sam2_service = None
NoInstance == 0

NoService == [name |-> "None", instance |-> NoInstance]

PipelineOff ==
    /\ req = NoReq
    /\ image_resized = NoShape
    /\ mask_resized = NoRaster
    /\ trimap = NoRaster
    /\ alpha = NoRaster
    /\ foreground = NoShape
    /\ bundle = NoBundle
    /\ exc = NoExc
    /\ calls = << >>
    /\ trace = << >>
    /\ files = NoFiles
    /\ services = [name \in ServiceNames |-> NoInstance]
    /\ constructed = [name \in ServiceNames |-> 0]
    /\ service = NoService

FunctionsOff ==
    /\ fn = "none"
    /\ arg = << >>
    /\ fpc = "off"
    /\ ret = Returned("None")

\* --------------------------------------------- calls of the pure functions
\* Two-level masks: the pixels of `sel` hold levels[2], the others levels[1].
MaskLevels == {<<0, 255>>, <<127, 128>>}

Mask(h, w, sel, lv) == Raster(h, w, [p \in Pixels(h, w) |-> IF p \in sel THEN lv[2] ELSE lv[1]])

TrimapFns == {"create_trimap", "_create_trimap"}

ResizeFns == {"resize_image", "_resize_image"}

InitFunctions ==
    /\ pc = "off"
    /\ PipelineOff
    /\ fpc = "ready"
    /\ ret = Returned("None")
    /\ \/ /\ fn \in TrimapFns
          /\ \E h \in 1 .. MaxH, w \in 1 .. MaxW, lv \in MaskLevels,
                ek \in 0 .. MaxK, dk \in 0 .. MaxK :
                \E sel \in SUBSET Pixels(h, w) :
                    arg = [mask |-> Mask(h, w, sel, lv), ek |-> ek, dk |-> dk]
       \/ /\ fn \in ResizeFns
          /\ \E h \in 1 .. MaxDim, w \in 1 .. MaxDim, max_size \in 1 .. MaxDim :
                arg = [h |-> h, w |-> w, max_size |-> max_size]

Call_create_trimap ==
    /\ fpc = "ready" /\ fn = "create_trimap"
    /\ ret' = create_trimap(arg.mask, arg.ek, arg.dk)
    /\ fpc' = "done"
    /\ UNCHANGED <<fn, arg, pvars>>

Call_ViT_create_trimap ==
    /\ fpc = "ready" /\ fn = "_create_trimap"
    /\ ret' = ViT_create_trimap(arg.mask, arg.ek, arg.dk)
    /\ fpc' = "done"
    /\ UNCHANGED <<fn, arg, pvars>>

Call_resize_image ==
    /\ fpc = "ready" /\ fn = "resize_image"
    /\ ret' = resize_image(arg.h, arg.w, arg.max_size)
    /\ fpc' = "done"
    /\ UNCHANGED <<fn, arg, pvars>>

Call_ViT_resize_image ==
    /\ fpc = "ready" /\ fn = "_resize_image"
    /\ ret' = ViT_resize_image(arg.h, arg.w, arg.max_size)
    /\ fpc' = "done"
    /\ UNCHANGED <<fn, arg, pvars>>

\* resize_image applied, with the same max_size, to the working image it
\* returned (arg.first).
Call_resize_image_again ==
    /\ fpc = "done" /\ fn = "resize_image"
    /\ ~ret.raised
    /\ arg' = [h |-> ret.value.h, w |-> ret.value.w, max_size |-> arg.max_size,
               first |-> ret.value]
    /\ ret' = resize_image(ret.value.h, ret.value.w, arg.max_size)
    /\ fpc' = "again"
    /\ UNCHANGED <<fn, pvars>>

NextFunctions ==
    \/ Call_create_trimap
    \/ Call_ViT_create_trimap
    \/ Call_resize_image
    \/ Call_ViT_resize_image
    \/ Call_resize_image_again

SpecFunctions == InitFunctions /\ [][NextFunctions]_vars

\* ------------------------------------------------------- the matte request
RouteAlgorithms == {"cf", "vitmatte", "knn", "lbdm", "lkm"}

Classical == "ClassicalMattingService.generate_matte"

ViTMatte == "ViTMatteService.generate_matte"

ViTFromTrimap == "ViTMatteService.generate_matte_from_trimap"

Dispatcher == "ClassicalMattingService._apply_matting_algorithm"

\* An image larger than every mask of the function calls: scaled down, its
\* working image still has several pixels.
LargeShape == <<MaxH + 1, MaxW + 1>>

ImageShapes == ((1 .. MaxH) \X (1 .. MaxW)) \cup {LargeShape}

\* A mask of the image's size, or of another one.
MaskShapes(ih, iw) == {<<ih, iw>>, <<1, 1>>, <<MaxH, MaxW>>}

\* Nothing selected, everything selected, the top-left pixel selected.
MaskPatterns(h, w) == {{}, Pixels(h, w), {<<0, 0>>}}

MaxSizes == 1 .. Max(MaxH, MaxW)

\* <<erosion_kernel_size, dilation_kernel_size>> of a request: two equal
\* sizes, or the smallest element with the largest.
KernelPairs == {<<k, k>> : k \in 0 .. MaxK} \cup {<<1, MaxK>>, <<MaxK, 1>>}

\* Alpha on the unknown band: undershoot, a value inside (0, 1), overshoot.
AlphaLevels == {-1, AlphaScale \div 2 - 1, AlphaScale + 1}

Request(entry, algorithm, ih, iw, mask, ek, dk, max_size) ==
    [entry |-> entry, algorithm |-> algorithm, ih |-> ih, iw |-> iw,
     mask |-> mask, erosion_kernel_size |-> ek, dilation_kernel_size |-> dk,
     max_size |-> max_size]

Init ==
    /\ pc = "idle"
    /\ PipelineOff
    /\ FunctionsOff

\* ------------------------------------------------- the service accessors
\* The constructors that load a model (SAM2Service, ViTMatteService) print and
\* re-raise what the loader raised; ClassicalMattingService() loads nothing.
FallibleServices == {"sam2_service", "vitmatte_service"}

LoadError == Exc("LoadError", "model loading failed")

\* An accessor that constructs a service at every call.
get_service_Fresh(name, fails) ==
    IF fails
    THEN /\ service' = NoService
         /\ UNCHANGED <<services, constructed>>
    ELSE /\ services' = [services EXCEPT ![name] = constructed[name] + 1]
         /\ constructed' = [constructed EXCEPT ![name] = @ + 1]
         /\ service' = [name |-> name, instance |-> constructed[name] + 1]

\* get_sam2_service / get_vitmatte_service / get_classical_matting_service:
\*   global x; if x is None: x = Service(); return x
\* `fails`: the constructor raises (the assignment is not reached).  The
\* instances of one class are numbered in the order of their construction.
get_service(name, fails) ==
    IF services[name] # NoInstance
    THEN /\ service' = [name |-> name, instance |-> services[name]]
         /\ UNCHANGED <<services, constructed>>
    ELSE IF fails
    THEN /\ service' = NoService
         /\ UNCHANGED <<services, constructed>>
    ELSE /\ services' = [services EXCEPT ![name] = constructed[name] + 1]
         /\ constructed' = [constructed EXCEPT ![name] = @ + 1]
         /\ service' = [name |-> name, instance |-> constructed[name] + 1]

\* The accessor's exception leaves the route handler before any service
\* method is called.
AccessorRaised(handler) ==
    /\ req' = [NoReq EXCEPT !.entry = handler]
    /\ pc' = "raised"
    /\ exc' = LoadError
    /\ UNCHANGED <<locals, bundle, calls, trace, fvars, files>>

\* The head of generate_matte, up to the decoded image and mask: the
\* classical service rejects an algorithm outside valid_algorithms before its
\* try block.  (ViTMatteService's "model is not initialized" test cannot fail
\* on a constructed service: __init__ loads the model or raises.)
Enter(r) ==
    /\ pc = "idle"
    /\ req' = r
    /\ IF r.entry = Classical /\ r.algorithm \notin valid_algorithms
       THEN /\ pc' = "raised"
            /\ exc' = Exc("ValueError", "Invalid algorithm")
       ELSE /\ pc' = "loaded"
            /\ exc' = NoExc
    /\ UNCHANGED <<locals, bundle, calls, trace, fvars, files>>

\* POST /segment/matte: "vitmatte" goes to ViTMatteService.generate_matte
\* (which takes no algorithm), every other name to the classical service.
matte_segment_image ==
    /\ pc = "idle"
    /\ \E algorithm \in RouteAlgorithms, shape \in ImageShapes,
       k \in KernelPairs, max_size \in MaxSizes, fails \in BOOLEAN :
        \E mshape \in MaskShapes(shape[1], shape[2]) :
            \E sel \in MaskPatterns(mshape[1], mshape[2]) :
                LET name == IF algorithm = "vitmatte" THEN "vitmatte_service"
                            ELSE "classical_matting_service"
                IN  /\ fails => name \in FallibleServices
                    /\ get_service(name, fails)
                    /\ IF service' = NoService
                       THEN AccessorRaised("matte_segment_image")
                       ELSE Enter(Request(IF algorithm = "vitmatte" THEN ViTMatte
                                          ELSE Classical,
                                          algorithm, shape[1], shape[2],
                                          Mask(mshape[1], mshape[2], sel, <<0, White>>),
                                          k[1], k[2], max_size))

\* ClassicalMattingService.generate_matte called with a name it does not know.
Call_generate_matte ==
    /\ pc = "idle"
    /\ \E algorithm \in {"bogus", "vitmatte"}, shape \in ImageShapes,
       sel \in MaskPatterns(1, 1), max_size \in MaxSizes :
        Enter(Request(Classical, algorithm, shape[1], shape[2],
                      Mask(1, 1, sel, <<0, White>>), 1, 1, max_size))
    /\ UNCHANGED svars

\* ViTMatteService.generate_matte_from_trimap: the upload is a finished trimap.
Call_generate_matte_from_trimap ==
    /\ pc = "idle"
    /\ \E shape \in ImageShapes, max_size \in MaxSizes :
        \E mshape \in MaskShapes(shape[1], shape[2]) :
            \E sel \in MaskPatterns(mshape[1], mshape[2]) :
                Enter(Request(ViTFromTrimap, "vitmatte", shape[1], shape[2],
                              Mask(mshape[1], mshape[2], sel, <<Unknown, White>>),
                              0, 0, max_size))
    /\ UNCHANGED svars

\* A handler that replaces the exception by one of its own.
RaiseWrapped(e) ==
    /\ pc' = "raised"
    /\ exc' = Exc("RuntimeError", "Matte generation failed")

Raise(e) ==
    /\ pc' = "raised"
    /\ exc' = e

\* "Resize if necessary": resize_image, then the mask (or the uploaded trimap)
\* is resized with INTER_NEAREST only if the image's shape changed.
Resize ==
    /\ pc = "loaded"
    /\ trace' = Append(trace, "resize")
    /\ LET r == IF req.entry = Classical
                THEN resize_image(req.ih, req.iw, req.max_size)
                ELSE ViT_resize_image(req.ih, req.iw, req.max_size)
           m == IF <<r.value.h, r.value.w>> # <<req.ih, req.iw>>
                THEN resizeNearest(req.mask, r.value.w, r.value.h).value
                ELSE req.mask
       IN  IF r.raised
           THEN /\ Raise(r.exc)
                /\ UNCHANGED locals
           ELSE /\ image_resized' = r.value
                /\ mask_resized' = m
                /\ IF req.entry = ViTFromTrimap
                   THEN pc' = "trimap" /\ trimap' = m
                   ELSE pc' = "resized" /\ trimap' = trimap
                /\ UNCHANGED <<alpha, foreground, exc>>
    /\ UNCHANGED <<req, bundle, calls, fvars, files, svars>>

\* "Create trimap"
Trimap ==
    /\ pc = "resized"
    /\ trace' = Append(trace, "trimap")
    /\ LET t == IF req.entry = Classical
                THEN create_trimap(mask_resized, req.erosion_kernel_size,
                                   req.dilation_kernel_size)
                ELSE ViT_create_trimap(mask_resized, req.erosion_kernel_size,
                                       req.dilation_kernel_size)
       IN  IF t.raised
           THEN Raise(t.exc) /\ trimap' = trimap
           ELSE pc' = "trimap" /\ trimap' = t.value /\ exc' = exc
    /\ UNCHANGED <<req, image_resized, mask_resized, alpha, foreground, bundle,
                   calls, fvars, files, svars>>

\* "Estimate alpha" of the classical service.  An exception of the dispatcher
\* passes generate_matte's "except Exception: print; raise" as it is.
EstimateAlpha ==
    /\ pc = "trimap" /\ req.entry = Classical
    /\ trace' = Append(trace, "alpha")
    /\ \E out \in SolverOutcomes(AlphaLevels) :
        LET r == apply_matting_algorithm(image_resized, trimap, req.algorithm, out)
        IN  /\ calls' = calls \o r.calls
            /\ IF r.raised
               THEN Raise(r.exc) /\ alpha' = alpha
               ELSE pc' = "alpha" /\ alpha' = r.value /\ exc' = exc
    /\ UNCHANGED <<req, image_resized, mask_resized, trimap, foreground, bundle,
                   fvars, files, svars>>

\* "Prepare inputs for ViTMatte" and "Generate alpha matte": the processor and
\* the network get the working image and the trimap as they are, no shape
\* test before.  What they do with shapes that disagree is theirs to decide:
\* they raise, or return an alpha field of the image's shape.
ViTEstimateAlpha ==
    /\ pc = "trimap" /\ req.entry \in {ViTMatte, ViTFromTrimap}
    /\ trace' = Append(trace, "alpha")
    /\ \E out \in SolverOutcomes(AlphaLevels) :
        /\ calls' = Append(calls, Call("vitmatte", <<image_resized.h, image_resized.w>>,
                                       Shape(trimap), out.raises))
        /\ IF out.raises
           THEN Raise(SolverError) /\ alpha' = alpha
           ELSE /\ pc' = "alpha"
                /\ exc' = exc
                /\ alpha' = IF <<image_resized.h, image_resized.w>> = Shape(trimap)
                            THEN SolverAlpha(trimap, out.level)
                            ELSE Raster(image_resized.h, image_resized.w,
                                        [p \in Pixels(image_resized.h, image_resized.w)
                                           |-> out.level])
    /\ UNCHANGED <<req, image_resized, mask_resized, trimap, foreground, bundle,
                   fvars, files, svars>>

\* A foreground stage that is entered again after estimate_foreground_ml
\* raised.
EstimateForegroundRetried ==
    /\ pc = "alpha" /\ req.entry = Classical
    /\ trace' = Append(trace, "foreground")
    /\ \E raises \in BOOLEAN :
        /\ calls' = Append(calls, Call("estimate_foreground_ml",
                                       <<image_resized.h, image_resized.w>>,
                                       Shape(alpha), raises))
        /\ IF raises
           THEN pc' = pc /\ exc' = exc /\ foreground' = foreground
           ELSE /\ pc' = "foreground"
                /\ exc' = exc
                /\ foreground' = [NoShape EXCEPT !.h = image_resized.h,
                                                 !.w = image_resized.w]
    /\ UNCHANGED <<req, image_resized, mask_resized, trimap, alpha, bundle, fvars, files, svars>>

\* "Estimate foreground": estimate_foreground_ml is called in generate_matte's
\* own try block, whose handler prints and re-raises; then the RGB estimate
\* and alpha are stacked to the RGBA layer, at the working resolution.
EstimateForeground ==
    /\ pc = "alpha" /\ req.entry = Classical
    /\ trace' = Append(trace, "foreground")
    /\ \E raises \in BOOLEAN :
        /\ calls' = Append(calls, Call("estimate_foreground_ml",
                                       <<image_resized.h, image_resized.w>>,
                                       Shape(alpha), raises))
        /\ IF raises
           THEN Raise(SolverError) /\ foreground' = foreground
           ELSE /\ pc' = "foreground"
                /\ exc' = exc
                /\ foreground' = [NoShape EXCEPT !.h = image_resized.h,
                                                 !.w = image_resized.w]
    /\ UNCHANGED <<req, image_resized, mask_resized, trimap, alpha, bundle, fvars, files, svars>>

\* cv2.resize(alpha_matte, original_size, INTER_LINEAR): the interpolated
\* values are not computed here; the result is kept as its shape and source.
Restored(matte, size) ==
    [h |-> size[1], w |-> size[2], resampled |-> TRUE, src |-> matte]

Unrestored(matte) ==
    [h |-> matte.h, w |-> matte.w, resampled |-> FALSE, src |-> matte]

\* Conversion to 8 bits, "Resize back to original size if needed", encoding
\* and the returned dictionary of the classical service.  encode_results
\* writes each array as a PNG (lossless) in base64: an encoded raster is
\* represented by the raster it decodes to.
Assemble ==
    /\ pc = "foreground" /\ req.entry = Classical
    /\ trace' = Append(trace, "assemble")
    /\ LET original_size == image_resized.original_size
           alpha_matte == [alpha EXCEPT !.px =
                              [p \in DOMAIN alpha.px |-> Classical_to_uint8(alpha.px[p])]]
           restore == <<image_resized.h, image_resized.w>> # original_size
           out_trimap == IF restore
                         THEN resizeNearest(trimap, original_size[2], original_size[1]).value
                         ELSE trimap
       IN  /\ trimap' = out_trimap
           /\ bundle' =
                [alpha_matte |-> IF restore THEN Restored(alpha_matte, original_size)
                                 ELSE Unrestored(alpha_matte),
                 trimap |-> out_trimap,
                 original_image |-> [h |-> req.ih, w |-> req.iw],
                 foreground |-> foreground,
                 processing_time |-> "elapsed",
                 image_size |-> original_size,
                 algorithm |-> req.algorithm,
                 parameters |->
                    [erosion_kernel_size |-> req.erosion_kernel_size,
                     dilation_kernel_size |-> req.dilation_kernel_size,
                     max_size |-> req.max_size,
                     algorithm |-> req.algorithm]]
    /\ pc' = "returned"
    /\ UNCHANGED <<req, image_resized, mask_resized, alpha, foreground, exc, calls,
                   fvars, files, svars>>

\* The same of ViTMatteService.generate_matte and generate_matte_from_trimap:
\* no clip, no foreground, no "algorithm"; from_trimap returns the uploaded
\* trimap untouched and echoes max_size only.
ViTAssemble ==
    /\ pc = "alpha" /\ req.entry \in {ViTMatte, ViTFromTrimap}
    /\ trace' = Append(trace, "assemble")
    /\ \E cast \in {"wrap", "saturate"} :
        LET original_size == image_resized.original_size
            alpha_matte == [alpha EXCEPT !.px =
                               [p \in DOMAIN alpha.px |-> ViT_to_uint8(alpha.px[p], cast)]]
            restore == <<image_resized.h, image_resized.w>> # original_size
            out_trimap == IF restore /\ req.entry = ViTMatte
                          THEN resizeNearest(trimap, original_size[2], original_size[1]).value
                          ELSE trimap
        IN  /\ trimap' = out_trimap
            /\ bundle' =
                 [alpha_matte |-> IF restore THEN Restored(alpha_matte, original_size)
                                  ELSE Unrestored(alpha_matte),
                  trimap |-> IF req.entry = ViTMatte THEN out_trimap ELSE req.mask,
                  original_image |-> [h |-> req.ih, w |-> req.iw],
                  processing_time |-> "elapsed",
                  image_size |-> original_size,
                  parameters |->
                     IF req.entry = ViTMatte
                     THEN [erosion_kernel_size |-> req.erosion_kernel_size,
                           dilation_kernel_size |-> req.dilation_kernel_size,
                           max_size |-> req.max_size]
                     ELSE [max_size |-> req.max_size]]
    /\ pc' = "returned"
    /\ UNCHANGED <<req, image_resized, mask_resized, alpha, foreground, exc, calls,
                   fvars, files, svars>>

\* _apply_matting_algorithm called on its own, with an image and a trimap (all
\* unknown) of any two shapes and any algorithm name.
Call_apply_matting_algorithm ==
    /\ pc = "idle"
    /\ \E algorithm \in valid_algorithms \cup {"bogus", "vitmatte"},
          shape \in ImageShapes, out \in SolverOutcomes(AlphaLevels) :
        \E tshape \in MaskShapes(shape[1], shape[2]) :
            LET t == Mask(tshape[1], tshape[2], {}, <<Unknown, White>>)
                img == [NoShape EXCEPT !.h = shape[1], !.w = shape[2],
                                       !.original_size = shape]
                r == apply_matting_algorithm(img, t, algorithm, out)
            IN  /\ req' = Request(Dispatcher, algorithm, shape[1], shape[2], t, 0, 0, 0)
                /\ image_resized' = img
                /\ trimap' = t
                /\ calls' = r.calls
                /\ IF r.raised
                   THEN Raise(r.exc) /\ alpha' = alpha
                   ELSE pc' = "returned" /\ alpha' = r.value /\ exc' = exc
    /\ trace' = <<"alpha">>
    /\ UNCHANGED <<mask_resized, foreground, bundle, fvars, files, svars>>

\* ------------------------------------------------------------- SAM2Service
SAM2Auto == "SAM2Service.auto_segment"

SAM2WithMask == "SAM2Service.segment_with_mask"

\* The image sent for segmentation.
SegmentShapes == {<<MaxH, MaxW>>}

SegmentsBundle(segments) ==
    [segments |-> segments,
     semantic_mask |-> IF segments = << >> THEN "" ELSE "png",
     color_map |-> segments,
     processing_time |-> "elapsed"]

\* POST /segment/auto, SAM2Service.auto_segment: the image is decoded in
\* memory and given to the mask generator, which returns masks or raises.
auto_segment_image ==
    /\ pc = "idle"
    /\ \E shape \in SegmentShapes, raises \in BOOLEAN, fails \in BOOLEAN :
        /\ get_service("sam2_service", fails)
        /\ IF service' = NoService
           THEN AccessorRaised("auto_segment_image")
           ELSE /\ req' = Request(SAM2Auto, "none", shape[1], shape[2], NoRaster, 0, 0, 0)
                /\ calls' = <<Call("SAM2AutomaticMaskGenerator.generate", shape, shape,
                                   raises)>>
                /\ IF raises
                   THEN Raise(SolverError) /\ bundle' = bundle
                   ELSE /\ pc' = "returned"
                        /\ exc' = exc
                        /\ bundle' = SegmentsBundle(<<"segment">>)
                /\ UNCHANGED <<locals, trace, fvars, files>>

\* SAM2Service.segment_with_mask: the decoded image and the decoded selection
\* mask are each written to a file of the working directory ("Save for
\* debugging") before anything else; an empty selection (no pixel > 0) returns
\* the empty result, any other goes to the predictor, which returns or raises.
segment_with_mask ==
    /\ pc = "idle"
    /\ \E shape \in SegmentShapes, full \in BOOLEAN, raises \in BOOLEAN :
        LET selection_mask == Mask(shape[1], shape[2],
                                   IF full THEN Pixels(shape[1], shape[2]) ELSE {},
                                   <<0, White>>)
            empty == \A p \in DOMAIN selection_mask.px : ~(selection_mask.px[p] > 0)
        IN  /\ req' = Request(SAM2WithMask, "none", shape[1], shape[2],
                              selection_mask, 0, 0, 0)
            /\ files' = [name \in DOMAIN files \cup {"input_image.png", "selection_mask.png"} |->
                            IF name = "input_image.png" THEN shape
                            ELSE IF name = "selection_mask.png" THEN selection_mask
                            ELSE files[name]]
            /\ IF empty
               THEN /\ raises = FALSE
                    /\ pc' = "returned"
                    /\ exc' = exc
                    /\ calls' = << >>
                    /\ bundle' = SegmentsBundle(<< >>)
               ELSE /\ calls' = <<Call("SAM2ImagePredictor.predict", shape, shape, raises)>>
                    /\ IF raises
                       THEN Raise(SolverError) /\ bundle' = bundle
                       ELSE /\ pc' = "returned"
                            /\ exc' = exc
                            /\ bundle' = SegmentsBundle(<<"segment">>)
    /\ UNCHANGED <<locals, trace, fvars, svars>>

\* The call is over: its result or exception went to the caller and nothing
\* of it is kept.
Respond ==
    /\ pc \in {"returned", "raised"}
    /\ pc' = "idle"
    /\ req' = NoReq
    /\ image_resized' = NoShape
    /\ mask_resized' = NoRaster
    /\ trimap' = NoRaster
    /\ alpha' = NoRaster
    /\ foreground' = NoShape
    /\ bundle' = NoBundle
    /\ exc' = NoExc
    /\ calls' = << >>
    /\ trace' = << >>
    /\ service' = NoService
    /\ UNCHANGED <<fvars, files, services, constructed>>

Next ==
    \/ matte_segment_image
    \/ Call_generate_matte
    \/ Call_generate_matte_from_trimap
    \/ Call_apply_matting_algorithm
    \/ Resize
    \/ Trimap
    \/ EstimateAlpha
    \/ ViTEstimateAlpha
    \/ EstimateForeground
    \/ Assemble
    \/ ViTAssemble
    \/ auto_segment_image
    \/ segment_with_mask
    \/ Respond

Spec == Init /\ [][Next]_vars

\* Both kinds of behaviour: a call of one of the pure functions, or the
\* server's requests.
InitAll == Init \/ InitFunctions

NextAll == Next \/ NextFunctions

SpecAll == InitAll /\ [][NextAll]_vars

\* ================================================================== claims
Selected(mask) == {p \in DOMAIN mask.px : mask.px[p] > 127}

ValuedAt(raster, v) == {p \in DOMAIN raster.px : raster.px[p] = v}

\* A selected pixel next to (8-neighbourhood) an unselected one.
HasBoundary(mask) ==
    \E p \in Selected(mask), q \in DOMAIN mask.px \ Selected(mask) :
        Max(Abs(p[1] - q[1]), Abs(p[2] - q[2])) = 1

\* The integer nearest to a / b, for a >= 0 and b > 0.
RoundDiv(a, b) == (2 * a + b) \div (2 * b)

TrimapBuilt == fn \in TrimapFns /\ fpc = "done"

\* C1: for kernel sizes >= 1 the trimap builder (either copy) returns a raster
\* of the mask's shape whose pixels are all 0, 128 or 255, and every 255 pixel
\* is a mask pixel of intensity > 127.
C1_TrimapPartition ==
    (TrimapBuilt /\ arg.ek >= 1 /\ arg.dk >= 1) =>
        /\ ~ret.raised
        /\ Shape(ret.value) = Shape(arg.mask)
        /\ DOMAIN ret.value.px = DOMAIN arg.mask.px
        /\ \A p \in DOMAIN ret.value.px : ret.value.px[p] \in {0, 128, 255}
        /\ ValuedAt(ret.value, 255) \subseteq Selected(arg.mask)

\* A trimap built with kernel sizes >= 1 that holds all three classes.
C1_Witness ==
    /\ TrimapBuilt /\ arg.ek >= 1 /\ arg.dk >= 1
    /\ ~ret.raised
    /\ ValuedAt(ret.value, 0) # {}
    /\ ValuedAt(ret.value, 128) # {}
    /\ ValuedAt(ret.value, 255) # {}

\* C2 as stated: for kernel sizes > 0 (1 included) a mask with a boundary
\* gives a trimap with at least one unknown pixel.
C2_UnknownBandFromSizeOne ==
    (fn = "create_trimap" /\ fpc = "done" /\ arg.ek > 0 /\ arg.dk > 0
        /\ HasBoundary(arg.mask)) =>
        (~ret.raised /\ ValuedAt(ret.value, 128) # {})

\* C2 as amended: the same for erosion and dilation kernel sizes >= 2 (a
\* 1 x 1 structuring element leaves the mask as it is).
C2_UnknownBandFromSizeTwo ==
    (fn = "create_trimap" /\ fpc = "done" /\ arg.ek >= 2 /\ arg.dk >= 2
        /\ HasBoundary(arg.mask)) =>
        (~ret.raised /\ ValuedAt(ret.value, 128) # {})

\* A mask with a boundary, both kernel sizes >= 2, and its unknown band.
C2_Witness ==
    /\ fn = "create_trimap" /\ fpc = "done" /\ arg.ek >= 2 /\ arg.dk >= 2
    /\ HasBoundary(arg.mask)
    /\ ~ret.raised
    /\ ValuedAt(ret.value, 128) # {}

\* C3: with erosion kernel size 0 create_trimap returns, and the 255 pixels
\* are exactly the mask pixels > 127; with dilation kernel size 0 it returns,
\* and the 0 pixels are exactly the mask pixels <= 127.
C3_ZeroKernelIsIdentity ==
    (fn = "create_trimap" /\ fpc = "done") =>
        /\ (arg.ek = 0 /\ arg.dk >= 1) =>
              (~ret.raised /\ ValuedAt(ret.value, 255) = Selected(arg.mask))
        /\ (arg.dk = 0 /\ arg.ek >= 1) =>
              (~ret.raised
               /\ ValuedAt(ret.value, 0) = DOMAIN arg.mask.px \ Selected(arg.mask))

\* C4: when max(H, W) > max_size, resize_image (either copy) returns a working
\* image whose longer side is max_size and whose shorter side is the shorter
\* original side times max_size over the longer one, rounded to the nearest
\* integer and at least 1.
C4_ResizeRoundsToNearest ==
    (fn \in ResizeFns /\ fpc = "done" /\ Max(arg.h, arg.w) > arg.max_size) =>
        /\ ~ret.raised
        /\ LET short == Max(1, RoundDiv(Min(arg.h, arg.w) * arg.max_size,
                                        Max(arg.h, arg.w)))
           IN  IF arg.h > arg.w
               THEN ret.value.h = arg.max_size /\ ret.value.w = short
               ELSE IF arg.h < arg.w
               THEN ret.value.w = arg.max_size /\ ret.value.h = short
               ELSE ret.value.h = arg.max_size /\ ret.value.w = arg.max_size

WorkingShape == <<image_resized.h, image_resized.w>>

\* C5: the raster generate_matte handed to the trimap builder (here: once the
\* builder has returned) always has the working image's height and width.
C5_MaskMatchesWorkingImage ==
    (req.entry \in {Classical, ViTMatte} /\ pc = "trimap") =>
        Shape(mask_resized) = WorkingShape

\* C6: when the working size differs from the original size, the alpha matte,
\* the trimap and (where the bundle has one) the foreground layer of the
\* returned bundle all have the original image's height and width.
C6_AllRastersRestored ==
    (pc = "returned" /\ req.entry \in {Classical, ViTMatte}
        /\ WorkingShape # <<req.ih, req.iw>>) =>
        \A k \in {"alpha_matte", "trimap", "foreground"} \cap DOMAIN bundle :
            <<bundle[k].h, bundle[k].w>> = <<req.ih, req.iw>>

\* C7: once the alpha solver or the foreground solver has raised, the classical
\* generate_matte raises the RuntimeError "Matting algorithm ... failed", which
\* carries the solver's exception (explicitly or implicitly chained).
C7_SolverFailureWrapped ==
    (req.entry = Classical /\ \E i \in DOMAIN calls : calls[i].raised) =>
        /\ pc = "raised"
        /\ exc.type = "RuntimeError"
        /\ exc.msg = "Matting algorithm failed"
        /\ SolverError.type \in {exc.cause, exc.context}

\* C8: an algorithm name outside cf, knn, lbdm, lkm given to generate_matte or
\* (with an image and a trimap of one shape) to _apply_matting_algorithm ends
\* in the invalid-algorithm ValueError, not in the RuntimeError of a failed
\* solver, and no solver is called.
C8_InvalidAlgorithmRejected ==
    (req.entry \in {Classical, Dispatcher} /\ req.algorithm \notin valid_algorithms
        /\ (req.entry = Dispatcher => WorkingShape = Shape(trimap))) =>
        /\ pc = "raised"
        /\ exc.type = "ValueError"
        /\ exc.msg \in {"Invalid algorithm", "Unsupported algorithm"}
        /\ calls = << >>

\* C9: no alpha estimator, classical or neural, is called with an image and a
\* trimap of different height or width.
C9_EstimatorShapesAgree ==
    req.entry \in {Classical, ViTMatte, ViTFromTrimap, Dispatcher} =>
        \A i \in DOMAIN calls :
            calls[i].callee # "estimate_foreground_ml" =>
                calls[i].image = calls[i].trimap

\* C10: every pixel of the 8-bit alpha matte (before any restoring to the
\* original size) is round(255 * clamp(alpha, 0, 1)) of the alpha the
\* estimator returned there, on the classical and on both ViTMatte paths
\* (for an upload of the image's own size).
C10_AlphaMatteRounded ==
    (pc = "returned" /\ req.entry \in {Classical, ViTMatte, ViTFromTrimap}
        /\ Shape(req.mask) = <<req.ih, req.iw>>) =>
        \A p \in DOMAIN alpha.px :
            /\ bundle.alpha_matte.src.px[p] \in 0 .. 255
            /\ bundle.alpha_matte.src.px[p] =
                  RoundDiv(255 * Min(Max(alpha.px[p], 0), AlphaScale), AlphaScale)

\* ------------------------------------------------------- the result bundle
\* C11: the bundle returned for a matte request (any of the five algorithm
\* values of the route) has an `algorithm` field equal to the requested
\* selector, and its `parameters` echo erosion_kernel_size,
\* dilation_kernel_size, max_size and algorithm of the request.
C11_BundleEchoesRequest ==
    (pc = "returned" /\ req.entry \in {Classical, ViTMatte}) =>
        /\ "algorithm" \in DOMAIN bundle
        /\ bundle.algorithm = req.algorithm
        /\ bundle.parameters =
              [erosion_kernel_size |-> req.erosion_kernel_size,
               dilation_kernel_size |-> req.dilation_kernel_size,
               max_size |-> req.max_size,
               algorithm |-> req.algorithm]

\* C12: image_size of every returned bundle is the (height, width) of the
\* uploaded image, downscaled to a working resolution or not.
C12_ImageSizeIsOriginal ==
    (pc = "returned" /\ req.entry \in {Classical, ViTMatte, ViTFromTrimap}) =>
        bundle.image_size = <<req.ih, req.iw>>

\* A bundle of the classical service for an image that was downscaled.
C12_Witness ==
    /\ pc = "returned"
    /\ req.entry = Classical
    /\ image_resized.resampled
    /\ <<image_resized.h, image_resized.w>> # <<req.ih, req.iw>>
    /\ bundle.image_size = <<req.ih, req.iw>>

\* ------------------------------------------------------- the all-zero mask
AllZero(raster) == \A p \in DOMAIN raster.px : raster.px[p] = 0

\* C13: for an all-zero mask the classical pipeline does not invoke foreground
\* recovery, and the bundle it returns carries an all-zero alpha matte and no
\* foreground layer.
C13_EmptyMaskNoForeground ==
    (req.entry = Classical /\ AllZero(req.mask)) =>
        /\ \A i \in DOMAIN calls : calls[i].callee # "estimate_foreground_ml"
        /\ pc = "returned" =>
              /\ AllZero(bundle.alpha_matte.src)
              /\ "foreground" \notin DOMAIN bundle

\* C14: for a mask with no pixel above 127 and kernel sizes >= 1,
\* create_trimap returns a trimap whose every pixel is 0.
C14_EmptyMaskEmptyTrimap ==
    (fn = "create_trimap" /\ fpc = "done" /\ arg.ek >= 1 /\ arg.dk >= 1
        /\ Selected(arg.mask) = {}) =>
        /\ ~ret.raised
        /\ Shape(ret.value) = Shape(arg.mask)
        /\ AllZero(ret.value)

\* A mask of several pixels, all at 127, under elements larger than 1x1.
C14_Witness ==
    /\ fn = "create_trimap" /\ fpc = "done"
    /\ arg.ek >= 2 /\ arg.dk >= 2
    /\ Cardinality(DOMAIN arg.mask.px) > 1
    /\ \A p \in DOMAIN arg.mask.px : arg.mask.px[p] = BinarizeThreshold
    /\ ~ret.raised /\ AllZero(ret.value)

\* ------------------------------------------------------------- persistence
\* C15: no request persists its image or mask: whatever segmentation and
\* matte requests were served, the server holds no file derived from an
\* upload.
C15_NothingPersisted == DOMAIN files = {}

\* -------------------------------------------------------- error propagation
\* The stage generate_matte was in when it raised ("enter": before the first).
RaisingStage == IF trace = << >> THEN "enter" ELSE trace[Len(trace)]

\* The exceptions the stage `stage` of the request can raise, computed from
\* the stage's own function on the values it was given.
StageExceptions(stage) ==
    IF stage = "enter" THEN {Exc("ValueError", "Invalid algorithm")}
    ELSE IF stage = "resize"
    THEN {IF req.entry = Classical
          THEN resize_image(req.ih, req.iw, req.max_size).exc
          ELSE ViT_resize_image(req.ih, req.iw, req.max_size).exc}
    ELSE IF stage = "trimap"
    THEN {IF req.entry = Classical
          THEN create_trimap(mask_resized, req.erosion_kernel_size,
                             req.dilation_kernel_size).exc
          ELSE ViT_create_trimap(mask_resized, req.erosion_kernel_size,
                                 req.dilation_kernel_size).exc}
    ELSE IF stage = "alpha" /\ req.entry = Classical
    THEN {apply_matting_algorithm(image_resized, trimap, req.algorithm, out).exc :
             out \in SolverOutcomes(AlphaLevels)}
    ELSE {SolverError}

\* In a generate_matte that has raised: no bundle, the exception of the stage
\* that raised, and no stage or collaborator that ran twice.
AbortedCleanly ==
    (pc = "raised" /\ req.entry \in {Classical, ViTMatte}) =>
        /\ DOMAIN bundle = {}
        /\ exc # NoExc
        /\ exc \in StageExceptions(RaisingStage)
        /\ \A i, j \in DOMAIN trace : trace[i] = trace[j] => i = j
        /\ \A i, j \in DOMAIN calls : calls[i].callee = calls[j].callee => i = j

\* After the raise nothing of the request runs: the call is left.
NothingAfterRaise ==
    (pc = "raised" /\ req.entry \in {Classical, ViTMatte}) =>
        (pc' = "idle" /\ DOMAIN bundle' = {} /\ trace' = << >> /\ calls' = << >>)

\* C16: when a stage of generate_matte (either service) raises, no later stage
\* runs, nothing is retried, no bundle is returned, and the exception the
\* stage raised is the one that reaches the caller.
C16_RaiseAbortsRequest == []AbortedCleanly /\ [][NothingAfterRaise]_vars

\* The fourth stage of a classical request has raised.
C16_Witness ==
    /\ pc = "raised"
    /\ req.entry = Classical
    /\ trace = <<"resize", "trimap", "alpha", "foreground">>
    /\ exc = SolverError
    /\ DOMAIN bundle = {}

\* ------------------------------------------------------------ resize_image
\* C17: resize_image returns its input image unchanged whenever
\* max(H, W) <= max_size, and whenever it returns (scaled or not) the
\* original_size it returns is the (H, W) of its input.
C17_ResizeKeepsSmallImages ==
    (fn = "resize_image" /\ fpc = "done") =>
        /\ Max(arg.h, arg.w) <= arg.max_size =>
              /\ ~ret.raised
              /\ <<ret.value.h, ret.value.w>> = <<arg.h, arg.w>>
              /\ ~ret.value.resampled
        /\ ~ret.raised => ret.value.original_size = <<arg.h, arg.w>>

\* An image whose longer side is exactly max_size came back as it was.
C17_Witness ==
    /\ fn = "resize_image" /\ fpc = "done"
    /\ Max(arg.h, arg.w) = arg.max_size /\ arg.h # arg.w
    /\ ~ret.raised /\ ~ret.value.resampled
    /\ ret.value.original_size = <<arg.h, arg.w>>

\* C18: resize_image applied with the same max_size to the working image it
\* returned gives that working image back unchanged.
C18_ResizeIdempotent ==
    (fn = "resize_image" /\ fpc = "again") =>
        /\ ~ret.raised
        /\ <<ret.value.h, ret.value.w>> = <<arg.first.h, arg.first.w>>
        /\ ~ret.value.resampled

\* The second application, to an image the first one had scaled down.
C18_Witness ==
    /\ fn = "resize_image" /\ fpc = "again"
    /\ arg.first.resampled
    /\ arg.first.original_size # <<arg.first.h, arg.first.w>>
    /\ ~ret.raised /\ ~ret.value.resampled

\* ------------------------------------------------- the two trimap builders
\* C19: a vitmatte request builds its trimap from the request's
\* erosion_kernel_size and dilation_kernel_size, and for one mask and one pair
\* of kernel sizes ViTMatteService._create_trimap gives exactly what
\* TrimapGenerationService.create_trimap gives (the same trimap, or the same
\* exception).
C19_ViTTrimapHonorsKernels ==
    /\ (req.entry = ViTMatte /\ pc = "trimap") =>
          LET c == create_trimap(mask_resized, req.erosion_kernel_size,
                                 req.dilation_kernel_size)
          IN  ~c.raised /\ c.value = trimap
    /\ (req.entry = ViTMatte /\ pc = "raised" /\ RaisingStage = "trimap") =>
          LET c == create_trimap(mask_resized, req.erosion_kernel_size,
                                 req.dilation_kernel_size)
          IN  c.raised /\ c.exc = exc
    /\ (fn = "_create_trimap" /\ fpc = "done") =>
          LET c == create_trimap(arg.mask, arg.ek, arg.dk)
          IN  /\ ret.raised = c.raised
              /\ IF c.raised THEN ret.exc = c.exc ELSE ret.value = c.value

\* A vitmatte request with two different kernel sizes whose trimap has an
\* unknown band.
C19_Witness ==
    /\ req.entry = ViTMatte /\ pc = "trimap"
    /\ req.erosion_kernel_size # req.dilation_kernel_size
    /\ ValuedAt(trimap, Unknown) # {}
    /\ ValuedAt(trimap, 0) # {}

\* ------------------------------------------------------------- stage order
StageOrder == <<"resize", "trimap", "alpha", "foreground", "assemble">>

IsPrefix(s, t) == Len(s) <= Len(t) /\ \A i \in 1 .. Len(s) : s[i] = t[i]

\* The stages a classical request has entered are an initial part of the
\* order, and it has a bundle only when all five are in it.
StagesInOrder ==
    req.entry = Classical =>
        /\ IsPrefix(trace, StageOrder)
        /\ (pc = "returned" \/ DOMAIN bundle # {}) =>
              (pc = "returned" /\ DOMAIN bundle # {} /\ trace = StageOrder)

\* Within a classical request a step enters at most the one next stage.
OneStageAtATime ==
    (req.entry = Classical /\ req' = req) =>
        \/ trace' = trace
        \/ /\ Len(trace') = Len(trace) + 1
           /\ IsPrefix(trace, trace')
           /\ trace'[Len(trace')] = StageOrder[Len(trace')]

\* C20: a classical matte request runs resize, trimap construction, alpha
\* estimation, foreground recovery and result assembly in this order, each at
\* most once and each after the one before it, and returns its bundle only
\* after all five.
C20_StagesInSequence == []StagesInOrder /\ [][OneStageAtATime]_vars

\* A classical request that returned its bundle.
C20_Witness ==
    /\ req.entry = Classical
    /\ pc = "returned"
    /\ trace = StageOrder
    /\ DOMAIN bundle # {}
    /\ Len(calls) = 2

\* ------------------------------------------------------ the bundle's trimap
\* C21: the trimap in the bundle generate_matte returns (either service) holds
\* only the values 0, 128 and 255, also when it was restored from the working
\* resolution to original_size.
C21_BundleTrimapCategorical ==
    (pc = "returned" /\ req.entry \in {Classical, ViTMatte}) =>
        \A p \in DOMAIN bundle.trimap.px :
            bundle.trimap.px[p] \in {0, Unknown, White}

\* A bundle whose trimap was restored to a larger original size and holds an
\* unknown band next to sure foreground.
C21_Witness ==
    /\ pc = "returned" /\ req.entry \in {Classical, ViTMatte}
    /\ image_resized.resampled
    /\ Shape(bundle.trimap) = image_resized.original_size
    /\ Shape(bundle.trimap) # WorkingShape
    /\ ValuedAt(bundle.trimap, Unknown) # {}
    /\ ValuedAt(bundle.trimap, White) # {}

\* ---------------------------------------------------- the service accessors
\* The accessor a route handler calls where only a fallible one can be meant.
AccessorOf(handler) ==
    IF handler = "auto_segment_image" THEN "sam2_service" ELSE "vitmatte_service"

\* No accessor has constructed twice; the instance a handler works with is
\* the one its global holds; after a constructor raised the global is unset.
ServicesSingle ==
    /\ \A name \in ServiceNames :
          /\ constructed[name] <= 1
          /\ services[name] # NoInstance => constructed[name] = 1
    /\ service # NoService =>
          /\ service.instance # NoInstance
          /\ service.instance = services[service.name]
    /\ (pc = "raised" /\ exc = LoadError) =>
          /\ service = NoService
          /\ services[AccessorOf(req.entry)] = NoInstance
          /\ constructed[AccessorOf(req.entry)] = 0

\* A global that is set keeps its instance and nothing more is constructed
\* for it; an accessor called with its global unset constructs.
ServicesKept ==
    /\ \A name \in ServiceNames :
          services[name] # NoInstance =>
              /\ services'[name] = services[name]
              /\ constructed'[name] = constructed[name]
    /\ (service = NoService /\ service' # NoService
            /\ services[service'.name] = NoInstance) =>
          /\ constructed'[service'.name] = constructed[service'.name] + 1
          /\ services'[service'.name] = service'.instance

\* C22: after any sequence of requests each accessor has constructed its
\* service at most once and every later call returns that instance; a call
\* whose construction raises leaves the global unset, and the next call
\* constructs.
C22_ServicesConstructedOnce == []ServicesSingle /\ [][ServicesKept]_vars

\* All three services exist and a vitmatte request was served by the one
\* instance of its service.
C22_Witness ==
    /\ \A name \in ServiceNames : services[name] # NoInstance /\ constructed[name] = 1
    /\ pc = "returned"
    /\ req.entry = ViTMatte
    /\ service = [name |-> "vitmatte_service", instance |-> services["vitmatte_service"]]
====
